---- MODULE Spec2Model ----
(***************************************************************************)
(* Model of src/MainWindow.py: the wallet window's refresh machinery.      *)
(*                                                                         *)
(* Two threads take steps:                                                 *)
(*   - the worker thread runs update_loop (lines 55-57): it schedules      *)
(*     refresh_values with GLib.idle_add and sleeps;                       *)
(*   - the GTK main loop (the UI thread) dispatches each scheduled         *)
(*     callback: refresh_values (lines 59-120) runs there, blocks on four  *)
(*     RPC calls in turn and writes the widgets between and after them.    *)
(* refresh_values has no exception handler, so any exception leaves the    *)
(* callback where it was raised; what was written before stays written.    *)
(***************************************************************************)
EXTENDS Integers, Sequences, FiniteSets, TLC

\* ------------------------------------------------------------------------
\* Bounds of the model
\* ------------------------------------------------------------------------

\* GLib's queue of idle sources is unbounded; the model lets the worker add
\* a callback only while fewer than MaxPending are waiting.
MaxPending == 2

\* Longest transfer list of a generated transaction (reconciliation inputs).
MaxTransfers == 2

\* Longest block sequence of a generated getTransactions result.
MaxBlocks == 3

\* ------------------------------------------------------------------------
\* Program constants
\* ------------------------------------------------------------------------

\* line 111: block rewards take 40 blocks to confirm
ConfirmationDepth == 40

\* line 81: "firstBlockIndex" : 1
FirstBlockIndex == 1

\* Python's None (line 92: address = None)
None == "<None>"

\* Text the widgets carry before the first refresh (MainWindow.glade, line 125)
GladeText == "<glade>"

\* ------------------------------------------------------------------------
\* Formatting (lines 68, 69, 113, 115, 120)
\* ------------------------------------------------------------------------

Has(r, f) == f \in DOMAIN r

Pad2(k) == IF k < 10 THEN "0" \o ToString(k) ELSE ToString(k)

Pad3(k) == IF k < 10 THEN "00" \o ToString(k)
           ELSE IF k < 100 THEN "0" \o ToString(k) ELSE ToString(k)

\* the ',' option of the format spec: groups of three digits
RECURSIVE Grouped(_)
Grouped(n) == IF n < 1000 THEN ToString(n)
              ELSE Grouped(n \div 1000) \o "," \o Pad3(n % 1000)

\* "{:,.2f}".format(n/100.) for an integer n
FormatAmount(n) ==
    LET a == IF n < 0 THEN 0 - n ELSE n
    IN  (IF n < 0 THEN "-" ELSE "") \o Grouped(a \div 100) \o "." \o Pad2(a % 100)

\* datetime.fromtimestamp(ts, tzlocal.get_localzone()).strftime(...): the
\* text is a function of the timestamp and of the (fixed) local zone
FormatTime(ts) == "localtime(" \o ToString(ts) \o ")"

\* line 120
FormatStatus(blockCount, peerCount, now) ==
    "Current block height: " \o ToString(blockCount) \o " | Peer count "
        \o ToString(peerCount) \o " | Last Updated " \o now

\* ------------------------------------------------------------------------
\* Reconciliation of one transaction (lines 91-118)
\* ------------------------------------------------------------------------

\* Variant of DesiredTransferAmount with <= for < on line 93
DesiredTransferAmount_ZeroOutgoing(transaction) ==
    IF transaction.amount <= 0
    THEN (transaction.amount + transaction.fee) * (-1)
    ELSE transaction.amount

\* lines 93-98
DesiredTransferAmount(transaction) ==
    IF transaction.amount < 0
    THEN (transaction.amount + transaction.fee) * (-1)
    ELSE transaction.amount

\* Variant of ScanTransfers that stops at the first match (a break after
\* line 103)
RECURSIVE ScanTransfers_FirstMatch(_, _, _)
ScanTransfers_FirstMatch(transfers, desired, address) ==
    IF transfers = <<>> THEN address
    ELSE IF Head(transfers).amount = desired THEN Head(transfers).address
    ELSE ScanTransfers_FirstMatch(Tail(transfers), desired, address)

\* lines 101-103: no break, so a later match overwrites an earlier one
RECURSIVE ScanTransfers(_, _, _)
ScanTransfers(transfers, desired, address) ==
    IF transfers = <<>> THEN address
    ELSE ScanTransfers(Tail(transfers), desired,
                       IF Head(transfers).amount = desired
                       THEN Head(transfers).address
                       ELSE address)

\* Variant of Direction with >= for > on line 108
Direction_ZeroIn(transaction) == IF transaction.amount >= 0 THEN "In" ELSE "Out"

\* line 108
Direction(transaction) == IF transaction.amount > 0 THEN "In" ELSE "Out"

\* Variant of Confirmed with < for <= on line 111
Confirmed_Strict(transaction, status) ==
    \/ transaction.unlockTime = 0
    \/ transaction.unlockTime < status.blockCount - ConfirmationDepth

\* line 111.  "is 0" is an identity test; CPython keeps one object for the
\* int 0, so on an integer unlockTime it is the test unlockTime == 0.
Confirmed(transaction, status) ==
    \/ transaction.unlockTime = 0
    \/ transaction.unlockTime <= status.blockCount - ConfirmationDepth

\* lines 106-118: the row appended for one transaction
Row(transaction, status) ==
    [direction |-> Direction(transaction),
     confirmed |-> Confirmed(transaction, status),
     amount    |-> FormatAmount(transaction.amount),
     time      |-> FormatTime(transaction.timestamp),
     address   |-> ScanTransfers(transaction.transfers,
                                 DesiredTransferAmount(transaction), None)]

\* lines 101-103: a transfer is read for "amount", and for "address" only
\* when its amount matches
TransfersReadable(transfers, desired) ==
    \A i \in 1..Len(transfers) :
        /\ Has(transfers[i], "amount")
        /\ (transfers[i].amount = desired => Has(transfers[i], "address"))

\* Every subscript of lines 93-115 finds its key (no KeyError); "fee" is
\* read only when amount < 0
Readable(transaction) ==
    /\ Has(transaction, "amount")
    /\ (transaction.amount < 0 => Has(transaction, "fee"))
    /\ Has(transaction, "transfers")
    /\ TransfersReadable(transaction.transfers, DesiredTransferAmount(transaction))
    /\ Has(transaction, "unlockTime")
    /\ Has(transaction, "timestamp")

RECURSIVE AppendTransactions(_, _, _)

\* Variant of AppendTransactions that appends no row for a transaction whose
\* transfer list is empty
RECURSIVE AppendTransactions_SkipEmpty(_, _, _)
AppendTransactions_SkipEmpty(transactions, status, store) ==
    IF transactions = <<>> THEN [store |-> store, ok |-> TRUE]
    ELSE IF ~Readable(Head(transactions)) THEN [store |-> store, ok |-> FALSE]
    ELSE AppendTransactions_SkipEmpty(Tail(transactions), status,
            IF Head(transactions).transfers = << >> THEN store
            ELSE Append(store, Row(Head(transactions), status)))

\* Variant of AppendTransactions that appends no row for a transaction none
\* of whose transfers carries the desired amount
RECURSIVE AppendTransactions_DropUnmatched(_, _, _)
AppendTransactions_DropUnmatched(transactions, status, store) ==
    IF transactions = <<>> THEN [store |-> store, ok |-> TRUE]
    ELSE IF ~Readable(Head(transactions)) THEN [store |-> store, ok |-> FALSE]
    ELSE AppendTransactions_DropUnmatched(Tail(transactions), status,
            IF Row(Head(transactions), status).address = None THEN store
            ELSE Append(store, Row(Head(transactions), status)))

\* lines 90-118: the inner loop over one block's transactions; stops at the
\* first transaction that raises, keeping the rows appended so far
AppendTransactions(transactions, status, store) ==
    IF transactions = <<>> THEN [store |-> store, ok |-> TRUE]
    ELSE IF ~Readable(Head(transactions)) THEN [store |-> store, ok |-> FALSE]
    ELSE AppendTransactions(Tail(transactions), status,
                            Append(store, Row(Head(transactions), status)))

\* Variant of PopulateStore that iterates blocks, not reversed(blocks)
RECURSIVE PopulateStore_Forward(_, _, _)
PopulateStore_Forward(blocks, status, store) ==
    IF blocks = <<>> THEN [store |-> store, ok |-> TRUE]
    ELSE LET block == Head(blocks)
         IN  IF ~Has(block, "transactions") THEN [store |-> store, ok |-> FALSE]
             ELSE LET r == AppendTransactions(block.transactions, status, store)
                  IN  IF r.ok THEN PopulateStore_Forward(Tail(blocks), status, r.store)
                      ELSE r

\* lines 88-89: the outer loop, over reversed(blocks)
RECURSIVE PopulateStore(_, _, _)
PopulateStore(blocks, status, store) ==
    IF blocks = <<>> THEN [store |-> store, ok |-> TRUE]
    ELSE LET block == blocks[Len(blocks)]
             rest  == SubSeq(blocks, 1, Len(blocks) - 1)
         IN  IF ~Has(block, "transactions") THEN [store |-> store, ok |-> FALSE]
             ELSE LET r == AppendTransactions(block.transactions, status, store)
                  IN  IF r.ok THEN PopulateStore(rest, status, r.store) ELSE r

\* ------------------------------------------------------------------------
\* What the wallet service may answer (the environment of refresh_values)
\* ------------------------------------------------------------------------

\* getBalance results: two well-formed ones, and one lacking each key
BalanceResponses ==
    { [availableBalance |-> 125000, lockedAmount |-> 500],
      [availableBalance |-> 0,      lockedAmount |-> 500],
      [availableBalance |-> 125000],
      [lockedAmount |-> 500] }

\* getAddresses results: one address, several, none, and no "addresses" key
AddressResponses ==
    { [addresses |-> <<"A">>],
      [addresses |-> <<"B", "A">>],
      [addresses |-> <<>>],
      [error |-> "no addresses"] }

\* getStatus results; 41 and 42 put unlockTime 1 and 2 on either side of
\* blockCount - 40
StatusResponses ==
    { [blockCount |-> 41, peerCount |-> 8],
      [blockCount |-> 42, peerCount |-> 8],
      [peerCount |-> 8],
      [blockCount |-> 41] }

\* Sample transactions of getTransactions results
TxIn      == [amount |-> 100, fee |-> 0, unlockTime |-> 0, timestamp |-> 1,
              transfers |-> << [address |-> "A", amount |-> 100] >>]
TxOut     == [amount |-> -150, fee |-> 10, unlockTime |-> 0, timestamp |-> 2,
              transfers |-> << [address |-> "A", amount |-> 100],
                               [address |-> "B", amount |-> 140] >>]
TxReward  == [amount |-> 50, fee |-> 0, unlockTime |-> 2, timestamp |-> 3,
              transfers |-> << >>]
TxNoAmount == [fee |-> 0, unlockTime |-> 0, timestamp |-> 4,
               transfers |-> << [address |-> "A", amount |-> 100] >>]
TxNoFeeIn == [amount |-> 7, unlockTime |-> 0, timestamp |-> 5,
              transfers |-> << [address |-> "B", amount |-> 7] >>]

\* getTransactions results: no block, only empty blocks, several blocks
\* (oldest first), a block holding a transaction without "amount", an
\* incoming transaction without "fee", and a result without "items"
TransactionsResponses ==
    { [items |-> << >>],
      [items |-> << [transactions |-> << >>], [transactions |-> << >>] >>],
      [items |-> << [transactions |-> <<TxIn>>],
                    [transactions |-> << >>],
                    [transactions |-> <<TxOut, TxReward>>] >>],
      [items |-> << [transactions |-> <<TxIn, TxNoAmount>>],
                    [transactions |-> <<TxReward>>] >>],
      [items |-> << [transactions |-> <<TxNoFeeIn>>] >>],
      [error |-> "no items"] }

\* datetime.now() formatted "%H:%M:%S" (line 120)
ClockValues == {"12:00:00", "12:00:05"}

\* ------------------------------------------------------------------------
\* Inputs of the reconciliation harness: one generated transaction in one
\* block, and a status
\* ------------------------------------------------------------------------

RecAmounts         == {-150, 0, 100}
RecFees            == {0, 10}
RecUnlockTimes     == {-1, 0, 1, 2, 3}
RecTransferAmounts == {-10, 0, 100, 140, 160}
RecAddresses       == {"A", "B"}
RecBlockCounts     == {39, 41, 42}

RecTransfer == [address : RecAddresses, amount : RecTransferAmounts]

RecTransferLists == UNION { [1..n -> RecTransfer] : n \in 0..MaxTransfers }

RecTransactions ==
    [amount : RecAmounts, fee : RecFees, unlockTime : RecUnlockTimes,
     timestamp : {1}, transfers : RecTransferLists]

RecInputs ==
    [blocks : { << [transactions |-> <<t>>] >> : t \in RecTransactions },
     status : [blockCount : RecBlockCounts, peerCount : {8}]]

\* ------------------------------------------------------------------------
\* Inputs of the reconciliation harness: generated block sequences (oldest
\* block first) of up to MaxBlocks blocks with up to two transactions each
\* ------------------------------------------------------------------------

\* an outgoing transaction none of whose transfers carries -(amount + fee)
TxUnmatched == [amount |-> -150, fee |-> 10, unlockTime |-> 0, timestamp |-> 6,
                transfers |-> << [address |-> "A", amount |-> 100],
                                 [address |-> "B", amount |-> 160] >>]

SeqTransactions == {TxIn, TxReward, TxUnmatched}

SeqTransactionLists == UNION { [1..n -> SeqTransactions] : n \in {0, 1, 2} }

SeqBlockLists ==
    UNION { [1..n -> [transactions : SeqTransactionLists]] : n \in 0..MaxBlocks }

SeqInputs ==
    [blocks : SeqBlockLists, status : {[blockCount |-> 41, peerCount |-> 8]}]

\* ------------------------------------------------------------------------
\* State
\* ------------------------------------------------------------------------

VARIABLES
    workerPc,     \* worker thread in update_loop: "idle_add" (line 56) or "sleep" (line 57)
    pending,      \* refresh_values callbacks queued by GLib.idle_add, not yet dispatched
    uiPc,         \* UI thread: "main" (in the GTK main loop) or the place
                  \* refresh_values has reached
    inflight,     \* requests sent to the wallet service and not yet answered
    rpcLog,       \* requests issued so far by the running refresh_values
    balances,     \* local of refresh_values (line 66)
    addresses,    \* local of refresh_values (line 72)
    status,       \* local of refresh_values (line 77)
    blocks,       \* local of refresh_values (line 81)
    availLabel,   \* AvailableBalanceAmountLabel
    lockedLabel,  \* LockedBalanceAmountLabel
    addressBox,   \* AddressTextBox
    listStore,    \* HomeTransactionsListStore (self.transactions_list_store)
    statusLabel,  \* MainStatusLabel
    shown,        \* history: what the widgets showed when the running (or last)
                  \* refresh_values was dispatched
    outcome,      \* history: how the last finished refresh_values ended
    recPc,        \* reconciliation harness: "off", "input" or "done"
    recIn,        \* reconciliation harness: the blocks and status given
    recOut        \* reconciliation harness: the result of PopulateStore

display == <<availLabel, lockedLabel, addressBox, listStore, statusLabel>>
locals  == <<balances, addresses, status, blocks>>
recVars == <<recPc, recIn, recOut>>
vars == <<workerPc, pending, uiPc, inflight, rpcLog, balances, addresses,
          status, blocks, availLabel, lockedLabel, addressBox, listStore,
          statusLabel, shown, outcome, recPc, recIn, recOut>>

\* The five displayed values
Display ==
    [available    |-> availLabel,
     locked       |-> lockedLabel,
     address      |-> addressBox,
     transactions |-> listStore,
     status       |-> statusLabel]

\* a local that is not bound
Unset == [unset |-> TRUE]

RecIdle == [blocks |-> << >>, status |-> Unset]
RecNone == [store |-> << >>, ok |-> TRUE]

\* Variant of InitWindow for an update_loop that sleeps before it schedules
\* (lines 56 and 57 exchanged)
InitWindow_SleepFirst ==
    /\ workerPc = "sleep"
    /\ pending = 0
    /\ uiPc = "main"
    /\ inflight = {}
    /\ rpcLog = << >>
    /\ balances = Unset
    /\ addresses = << >>
    /\ status = Unset
    /\ blocks = << >>
    /\ availLabel = GladeText
    /\ lockedLabel = GladeText
    /\ addressBox = GladeText
    /\ listStore = << >>
    /\ statusLabel = GladeText
    /\ shown = [available |-> GladeText, locked |-> GladeText,
                address |-> GladeText, transactions |-> << >>,
                status |-> GladeText]
    /\ outcome = [result |-> "none", at |-> "none"]

\* __init__ (lines 122-145): widgets as the glade file defines them, the
\* worker thread started at the top of update_loop, nothing scheduled yet
InitWindow ==
    /\ workerPc = "idle_add"
    /\ pending = 0
    /\ uiPc = "main"
    /\ inflight = {}
    /\ rpcLog = << >>
    /\ balances = Unset
    /\ addresses = << >>
    /\ status = Unset
    /\ blocks = << >>
    /\ availLabel = GladeText
    /\ lockedLabel = GladeText
    /\ addressBox = GladeText
    /\ listStore = << >>
    /\ statusLabel = GladeText
    /\ shown = [available |-> GladeText, locked |-> GladeText,
                address |-> GladeText, transactions |-> << >>,
                status |-> GladeText]
    /\ outcome = [result |-> "none", at |-> "none"]

Init ==
    /\ InitWindow
    /\ recPc = "off"
    /\ recIn = RecIdle
    /\ recOut = RecNone

\* ------------------------------------------------------------------------
\* The worker thread: update_loop (lines 55-57)
\* ------------------------------------------------------------------------

\* Variant of WorkerIdleAdd in which the worker thread also writes the status
\* label itself
WorkerIdleAdd_WritesLabel ==
    /\ workerPc = "idle_add"
    /\ pending < MaxPending
    /\ pending' = pending + 1
    /\ workerPc' = "sleep"
    /\ statusLabel' = "Refreshing"
    /\ UNCHANGED <<uiPc, inflight, rpcLog, locals, availLabel, lockedLabel,
                   addressBox, listStore, shown, outcome, recVars>>

\* line 56: GLib.idle_add(self.refresh_values)
WorkerIdleAdd ==
    /\ workerPc = "idle_add"
    /\ pending < MaxPending
    /\ pending' = pending + 1
    /\ workerPc' = "sleep"
    /\ UNCHANGED <<uiPc, inflight, rpcLog, locals, display, shown, outcome, recVars>>

\* line 57: time.sleep(5) returns
WorkerSleep ==
    /\ workerPc = "sleep"
    /\ workerPc' = "idle_add"
    /\ UNCHANGED <<pending, uiPc, inflight, rpcLog, locals, display, shown,
                   outcome, recVars>>

\* ------------------------------------------------------------------------
\* The UI thread: the GTK main loop running refresh_values (lines 59-120)
\* ------------------------------------------------------------------------

\* Variant of Dispatch in which a queued callback is started although
\* refresh_values is under way
Dispatch_Reentrant ==
    /\ pending > 0
    /\ pending' = pending - 1
    /\ uiPc' = "getBalance"
    /\ shown' = Display
    /\ UNCHANGED <<workerPc, inflight, rpcLog, locals, display, outcome, recVars>>

\* The main loop takes one queued idle source and calls refresh_values; the
\* callback returns None (or raises), so the source is removed.
Dispatch ==
    /\ uiPc = "main"
    /\ pending > 0
    /\ pending' = pending - 1
    /\ uiPc' = "getBalance"
    /\ shown' = Display
    /\ UNCHANGED <<workerPc, inflight, rpcLog, locals, display, outcome, recVars>>

\* refresh_values is left: its frame (locals) is gone, the UI thread is back
\* in the main loop
Leave(result, at) ==
    /\ uiPc' = "main"
    /\ inflight' = {}
    /\ rpcLog' = << >>
    /\ balances' = Unset
    /\ addresses' = << >>
    /\ status' = Unset
    /\ blocks' = << >>
    /\ outcome' = [result |-> result, at |-> at]

\* Variant of Abort in which the exception ends the main loop
Abort_EndsMainLoop(error, at) ==
    /\ uiPc' = "stopped"
    /\ inflight' = {}
    /\ rpcLog' = << >>
    /\ balances' = Unset
    /\ addresses' = << >>
    /\ status' = Unset
    /\ blocks' = << >>
    /\ outcome' = [result |-> error, at |-> at]

\* An exception leaves refresh_values: nothing later in the function runs,
\* the main loop reports it and goes on
Abort(error, at) == Leave(error, at)

\* refresh_values returns after line 120
Finish == Leave("delivered", "none")

\* wallet_connection.request(...) is entered: the request goes out and the
\* UI thread blocks in it
Issue(request) ==
    /\ inflight = {}
    /\ inflight' = inflight \cup {request}
    /\ rpcLog' = Append(rpcLog, request)

\* Variant of CallGetBalance for a refresh_values that clears the list store
\* first (line 84 moved to the top of the function)
CallGetBalance_ClearsFirst ==
    /\ uiPc = "getBalance"
    /\ Issue([method |-> "getBalance"])
    /\ listStore' = << >>
    /\ UNCHANGED <<workerPc, pending, uiPc, locals, availLabel, lockedLabel,
                   addressBox, statusLabel, shown, outcome, recVars>>

\* line 66, call
CallGetBalance ==
    /\ uiPc = "getBalance"
    /\ Issue([method |-> "getBalance"])
    /\ UNCHANGED <<workerPc, pending, uiPc, locals, display, shown, outcome, recVars>>

\* line 66 returns, lines 68-69
ReturnGetBalance ==
    /\ uiPc = "getBalance"
    /\ inflight # {}
    /\ \E response \in BalanceResponses :
          IF ~Has(response, "availableBalance")
          THEN /\ Abort("KeyError", "availableBalance")
               /\ UNCHANGED <<availLabel, lockedLabel>>
          ELSE /\ availLabel' = FormatAmount(response.availableBalance)
               /\ IF ~Has(response, "lockedAmount")
                  THEN /\ Abort("KeyError", "lockedAmount")
                       /\ UNCHANGED lockedLabel
                  ELSE /\ lockedLabel' = FormatAmount(response.lockedAmount)
                       /\ balances' = response
                       /\ uiPc' = "getAddresses"
                       /\ inflight' = {}
                       /\ UNCHANGED <<rpcLog, addresses, status, blocks, outcome>>
    /\ UNCHANGED <<workerPc, pending, addressBox, listStore, statusLabel,
                   shown, recVars>>

\* line 66 raises
FailGetBalance ==
    /\ uiPc = "getBalance"
    /\ inflight # {}
    /\ Abort("TransportFailure", "getBalance")
    /\ UNCHANGED <<workerPc, pending, display, shown, recVars>>

\* line 72, call
CallGetAddresses ==
    /\ uiPc = "getAddresses"
    /\ Issue([method |-> "getAddresses"])
    /\ UNCHANGED <<workerPc, pending, uiPc, locals, display, shown, outcome, recVars>>

\* Variant of ReturnGetAddresses that shows an empty text for an empty
\* address list and goes on
ReturnGetAddresses_EmptyTolerated ==
    /\ uiPc = "getAddresses"
    /\ inflight # {}
    /\ \E response \in AddressResponses :
          IF ~Has(response, "addresses")
          THEN /\ Abort("KeyError", "addresses")
               /\ UNCHANGED addressBox
          ELSE /\ addresses' = response.addresses
               /\ addressBox' = (IF response.addresses = << >> THEN ""
                                 ELSE response.addresses[1])
               /\ uiPc' = "getStatus"
               /\ inflight' = {}
               /\ UNCHANGED <<rpcLog, balances, status, blocks, outcome>>
    /\ UNCHANGED <<workerPc, pending, availLabel, lockedLabel, listStore,
                   statusLabel, shown, recVars>>

\* line 72 returns, line 74
ReturnGetAddresses ==
    /\ uiPc = "getAddresses"
    /\ inflight # {}
    /\ \E response \in AddressResponses :
          IF ~Has(response, "addresses")
          THEN /\ Abort("KeyError", "addresses")
               /\ UNCHANGED addressBox
          ELSE IF response.addresses = << >>
          THEN /\ Abort("IndexError", "addresses[0]")
               /\ UNCHANGED addressBox
          ELSE /\ addresses' = response.addresses
               /\ addressBox' = response.addresses[1]
               /\ uiPc' = "getStatus"
               /\ inflight' = {}
               /\ UNCHANGED <<rpcLog, balances, status, blocks, outcome>>
    /\ UNCHANGED <<workerPc, pending, availLabel, lockedLabel, listStore,
                   statusLabel, shown, recVars>>

\* line 72 raises
FailGetAddresses ==
    /\ uiPc = "getAddresses"
    /\ inflight # {}
    /\ Abort("TransportFailure", "getAddresses")
    /\ UNCHANGED <<workerPc, pending, display, shown, recVars>>

\* line 77, call
CallGetStatus ==
    /\ uiPc = "getStatus"
    /\ Issue([method |-> "getStatus"])
    /\ UNCHANGED <<workerPc, pending, uiPc, locals, display, shown, outcome, recVars>>

\* line 77 returns
ReturnGetStatus ==
    /\ uiPc = "getStatus"
    /\ inflight # {}
    /\ \E response \in StatusResponses :
          /\ status' = response
          /\ uiPc' = "getTransactions"
          /\ inflight' = {}
    /\ UNCHANGED <<workerPc, pending, rpcLog, balances, addresses, blocks,
                   display, shown, outcome, recVars>>

\* line 77 raises
FailGetStatus ==
    /\ uiPc = "getStatus"
    /\ inflight # {}
    /\ Abort("TransportFailure", "getStatus")
    /\ UNCHANGED <<workerPc, pending, display, shown, recVars>>

\* Variant of CallGetTransactions that asks for the first address only
CallGetTransactions_FirstAddress ==
    /\ uiPc = "getTransactions"
    /\ inflight = {}
    /\ IF ~Has(status, "blockCount")
       THEN Abort("KeyError", "blockCount")
       ELSE /\ Issue([method |-> "getTransactions",
                      params |-> [blockCount      |-> status.blockCount,
                                  firstBlockIndex |-> FirstBlockIndex,
                                  addresses       |-> <<addresses[1]>>]])
            /\ UNCHANGED <<uiPc, locals, outcome>>
    /\ UNCHANGED <<workerPc, pending, display, shown, recVars>>

\* line 81, call: the params are built first, status['blockCount'] included
CallGetTransactions ==
    /\ uiPc = "getTransactions"
    /\ inflight = {}
    /\ IF ~Has(status, "blockCount")
       THEN Abort("KeyError", "blockCount")
       ELSE /\ Issue([method |-> "getTransactions",
                      params |-> [blockCount      |-> status.blockCount,
                                  firstBlockIndex |-> FirstBlockIndex,
                                  addresses       |-> addresses]])
            /\ UNCHANGED <<uiPc, locals, outcome>>
    /\ UNCHANGED <<workerPc, pending, display, shown, recVars>>

\* line 81 returns: blocks = response['items']
ReturnGetTransactions ==
    /\ uiPc = "getTransactions"
    /\ inflight # {}
    /\ \E response \in TransactionsResponses :
          IF ~Has(response, "items")
          THEN Abort("KeyError", "items")
          ELSE /\ blocks' = response.items
               /\ uiPc' = "populate"
               /\ inflight' = {}
               /\ UNCHANGED <<rpcLog, balances, addresses, status, outcome>>
    /\ UNCHANGED <<workerPc, pending, display, shown, recVars>>

\* line 81 raises
FailGetTransactions ==
    /\ uiPc = "getTransactions"
    /\ inflight # {}
    /\ Abort("TransportFailure", "getTransactions")
    /\ UNCHANGED <<workerPc, pending, display, shown, recVars>>

\* Variant of Populate without the clear of line 84
Populate_NoClear ==
    /\ uiPc = "populate"
    /\ \E now \in ClockValues :
          LET r == PopulateStore(blocks, status, listStore)
          IN  /\ listStore' = r.store
              /\ IF ~r.ok
                 THEN /\ Abort("KeyError", "transactions")
                      /\ UNCHANGED statusLabel
                 ELSE IF ~Has(status, "peerCount")
                 THEN /\ Abort("KeyError", "peerCount")
                      /\ UNCHANGED statusLabel
                 ELSE /\ statusLabel' = FormatStatus(status.blockCount,
                                                     status.peerCount, now)
                      /\ Finish
    /\ UNCHANGED <<workerPc, pending, availLabel, lockedLabel, addressBox,
                   shown, recVars>>

\* lines 84-120: clear the list store, refill it, set the status label.
\* No other thread reads the widgets and the UI thread draws nothing before
\* the callback returns, so the lines make one step.
Populate ==
    /\ uiPc = "populate"
    /\ \E now \in ClockValues :
          LET r == PopulateStore(blocks, status, << >>)
          IN  /\ listStore' = r.store
              /\ IF ~r.ok
                 THEN /\ Abort("KeyError", "transactions")
                      /\ UNCHANGED statusLabel
                 ELSE IF ~Has(status, "peerCount")
                 THEN /\ Abort("KeyError", "peerCount")
                      /\ UNCHANGED statusLabel
                 ELSE /\ statusLabel' = FormatStatus(status.blockCount,
                                                     status.peerCount, now)
                      /\ Finish
    /\ UNCHANGED <<workerPc, pending, availLabel, lockedLabel, addressBox,
                   shown, recVars>>

Next ==
    \/ WorkerIdleAdd
    \/ WorkerSleep
    \/ Dispatch
    \/ CallGetBalance
    \/ ReturnGetBalance
    \/ FailGetBalance
    \/ CallGetAddresses
    \/ ReturnGetAddresses
    \/ FailGetAddresses
    \/ CallGetStatus
    \/ ReturnGetStatus
    \/ FailGetStatus
    \/ CallGetTransactions
    \/ ReturnGetTransactions
    \/ FailGetTransactions
    \/ Populate

Spec == Init /\ [][Next]_vars

\* The scheduling the program relies on: the worker thread keeps running
\* (its sleep ends), and the GTK main loop runs a queued idle callback when
\* it is not inside another callback.  Nothing is assumed of the wallet
\* service: a request may stay unanswered for ever.
FairSpec ==
    /\ Spec
    /\ WF_vars(WorkerIdleAdd)
    /\ WF_vars(WorkerSleep)
    /\ WF_vars(Dispatch)

\* ------------------------------------------------------------------------
\* The reconciliation harness: lines 84-118 applied to generated inputs
\* ------------------------------------------------------------------------

InitRec ==
    /\ InitWindow
    /\ recPc = "input"
    /\ recIn \in RecInputs
    /\ recOut = RecNone

\* lines 84-118 on the harness input: an emptied store, refilled
Reconcile ==
    /\ recPc = "input"
    /\ recOut' = PopulateStore(recIn.blocks, recIn.status, << >>)
    /\ recPc' = "done"
    /\ UNCHANGED <<workerPc, pending, uiPc, inflight, rpcLog, locals, display,
                   shown, outcome, recIn>>

NextRec == Reconcile

SpecRec == InitRec /\ [][NextRec]_vars

InitSeq ==
    /\ InitWindow
    /\ recPc = "input"
    /\ recIn \in SeqInputs
    /\ recOut = RecNone

\* the harness on generated block sequences
SpecSeq == InitSeq /\ [][NextRec]_vars

\* ------------------------------------------------------------------------
\* Properties
\* ------------------------------------------------------------------------

\* The last finished refresh_values ended with an exception
Failed == outcome.result \in {"TransportFailure", "KeyError", "IndexError"}

\* The places of the UI thread
UiPlaces == {"main", "getBalance", "getAddresses", "getStatus",
             "getTransactions", "populate"}

Max(S) == CHOOSE m \in S : \A k \in S : k <= m

\* C1: if one of the four RPC calls of a refresh cycle fails, every displayed
\* value is after the cycle what it was before the cycle.
C1_NoPartialUpdate ==
    (uiPc = "main" /\ outcome.result = "TransportFailure") => Display = shown

\* C2: if the getTransactions result holds a transaction lacking a required
\* field, the cycle is aborted and every displayed value is what it was
\* before the cycle.
C2_MalformedLeavesDisplay ==
    (uiPc = "main" /\ outcome = [result |-> "KeyError", at |-> "transactions"])
        => Display = shown

\* C3: a refresh cycle that aborts with a failure leaves the UI thread in the
\* main loop (no terminal place), and from there a further refresh cycle is
\* eventually started.
C3_FailedCycleIsFollowed ==
    /\ [](uiPc \in UiPlaces)
    /\ [][(Failed' /\ outcome' # outcome) => uiPc' = "main"]_vars
    /\ ((Failed /\ uiPc = "main") ~> (uiPc = "getBalance"))

\* C3 witness: a cycle has failed and the next one has issued its first request
C3_Witness == Failed /\ uiPc = "getBalance" /\ inflight # {}

\* C4: refresh cycles are sequential: a queued callback is started only from
\* the main loop, with no request in flight and no cycle under way; at most
\* one request is in flight at any time, the one the running cycle issued
\* last; none is in flight between cycles.
C4_CyclesSequential ==
    /\ [](/\ Cardinality(inflight) <= 1
          /\ (uiPc = "main" => inflight = {} /\ rpcLog = << >>)
          /\ (inflight # {} => /\ rpcLog # << >>
                               /\ inflight = {rpcLog[Len(rpcLog)]}
                               /\ rpcLog[Len(rpcLog)].method = uiPc))
    /\ [][pending' < pending =>
            /\ uiPc = "main" /\ inflight = {} /\ rpcLog = << >>
            /\ uiPc' = "getBalance"]_vars
    /\ [][(rpcLog' # rpcLog /\ rpcLog' # << >>) =>
            /\ uiPc \in UiPlaces \ {"main"}
            /\ inflight = {}]_vars

\* C4 witness: a second cycle has a request in flight while the worker has
\* queued a further callback
C4_Witness == outcome.result # "none" /\ inflight # {} /\ pending > 0

\* C5: a step of the worker thread changes no widget and nothing of the UI
\* thread; all it does to the presentation side is queue one callback.  Every
\* change of a widget is a step of the UI thread inside refresh_values.
C5_WorkerLeavesWidgets ==
    [][/\ (workerPc' # workerPc =>
              /\ UNCHANGED <<display, uiPc, inflight, rpcLog, locals>>
              /\ pending' \in {pending, pending + 1})
       /\ (display' # display =>
              /\ workerPc' = workerPc
              /\ pending' = pending
              /\ uiPc \in UiPlaces \ {"main"})]_vars

\* C5 witness: widgets have been written and the worker has queued a callback
C5_Witness == availLabel # GladeText /\ workerPc = "sleep" /\ pending > 0

RpcOrder == <<"getBalance", "getAddresses", "getStatus", "getTransactions">>

\* C6: the requests of one cycle are getBalance, getAddresses, getStatus,
\* getTransactions in this order, each at most once, and getTransactions
\* carries the blockCount of this cycle's getStatus result, firstBlockIndex
\* 1 and the whole address list of this cycle's getAddresses result.
C6_CallOrder ==
    /\ Len(rpcLog) <= 4
    /\ \A i \in 1..Len(rpcLog) : rpcLog[i].method = RpcOrder[i]
    /\ Len(rpcLog) = 4 =>
          rpcLog[4].params = [blockCount      |-> status.blockCount,
                              firstBlockIndex |-> 1,
                              addresses       |-> addresses]

\* C6 witness: the fourth request is out, for an address list of two
C6_Witness == Len(rpcLog) = 4 /\ inflight # {} /\ Len(addresses) = 2

RECURSIVE CountTransactions(_)
CountTransactions(bs) ==
    IF bs = << >> THEN 0
    ELSE Len(Head(bs).transactions) + CountTransactions(Tail(bs))

RECURSIVE CountWithTransfers(_)
CountWithTransfers(bs) ==
    IF bs = << >> THEN 0
    ELSE Cardinality({i \in 1..Len(Head(bs).transactions) :
                         Head(bs).transactions[i].transfers # << >>})
         + CountWithTransfers(Tail(bs))

\* the step that ends a successful cycle
Delivers == uiPc = "populate" /\ uiPc' = "main" /\ outcome'.result = "delivered"

\* C7 as stated: after a successful cycle the number of rows equals the
\* number of fetched transactions whose transfer list is not empty.
C7_RowsCountNonEmptyTransfers ==
    [][Delivers => Len(listStore') = CountWithTransfers(blocks)]_vars

\* C7 amended: after a successful cycle the number of rows equals the number
\* of fetched transactions, whatever their transfer lists; if every block has
\* an empty transactions list the list is empty.
C7_RowsCountTransactions ==
    [][Delivers =>
          /\ Len(listStore') = CountTransactions(blocks)
          /\ ((\A i \in 1..Len(blocks) : blocks[i].transactions = << >>)
                 => listStore' = << >>)]_vars

\* C7 witness: a delivered list of three rows, the row of the transaction
\* with the empty transfer list among them
C7_Witness ==
    /\ uiPc = "main"
    /\ outcome.result = "delivered"
    /\ Len(listStore) = 3
    /\ \E i \in 1..3 : listStore[i].time = FormatTime(TxReward.timestamp)

\* The harness input and output
RecTx  == recIn.blocks[1].transactions[1]
RecRow == recOut.store[1]

\* the last transfer of t whose amount is target, if there is one
LastMatch(t, target) ==
    LET m == {i \in 1..Len(t.transfers) : t.transfers[i].amount = target}
    IN  IF m = {} THEN None ELSE t.transfers[Max(m)].address

ClaimedTarget(t) == IF t.amount < 0 THEN 0 - (t.amount + t.fee) ELSE t.amount

\* the last-match rule, for amount < 0 and amount > 0
LastMatchRule ==
    (RecTx.amount # 0 /\ LastMatch(RecTx, ClaimedTarget(RecTx)) # None)
        => RecRow.address = LastMatch(RecTx, ClaimedTarget(RecTx))

\* C8 as stated: the counterparty is the last transfer whose amount equals
\* the target, -(amount + fee) for amount < 0 and amount for amount > 0; and
\* amount -150 with fee 10 has target 160, so that [(A,100),(B,160)] gives B.
C8_LastMatchTarget160 ==
    recPc = "done" =>
        /\ LastMatchRule
        /\ (RecTx.amount = -150 /\ RecTx.fee = 10) =>
              /\ DesiredTransferAmount(RecTx) = 160
              /\ (RecTx.transfers = << [address |-> "A", amount |-> 100],
                                       [address |-> "B", amount |-> 160] >>
                    => RecRow.address = "B")

\* C8 amended: the same rule; amount -150 with fee 10 has target 140, so that
\* [(A,100),(B,140)] gives B (and [(A,100),(B,160)] gives no counterparty).
C8_LastMatchTarget140 ==
    recPc = "done" =>
        /\ LastMatchRule
        /\ (RecTx.amount = -150 /\ RecTx.fee = 10) =>
              /\ DesiredTransferAmount(RecTx) = 140
              /\ (RecTx.transfers = << [address |-> "A", amount |-> 100],
                                       [address |-> "B", amount |-> 140] >>
                    => RecRow.address = "B")
              /\ (RecTx.transfers = << [address |-> "A", amount |-> 100],
                                       [address |-> "B", amount |-> 160] >>
                    => RecRow.address = None)

\* C8 witness: two transfers carry the target of an outgoing transaction and
\* the later one is the counterparty
C8_Witness ==
    /\ recPc = "done"
    /\ RecTx.amount = -150 /\ RecTx.fee = 10
    /\ RecTx.transfers = << [address |-> "A", amount |-> 140],
                            [address |-> "B", amount |-> 140] >>
    /\ RecRow.address = "B"

\* C9: the confirmed flag of a row is (unlockTime = 0 or unlockTime <=
\* blockCount - 40), for the blockCount of the same cycle's status.
C9_ConfirmedFlag ==
    recPc = "done" =>
        RecRow.confirmed = (\/ RecTx.unlockTime = 0
                            \/ RecTx.unlockTime <= recIn.status.blockCount - 40)

\* C9 witness: both sides of the boundary have been computed -- here the
\* unconfirmed one, unlockTime = blockCount - 39
C9_Witness ==
    /\ recPc = "done"
    /\ RecTx.unlockTime = recIn.status.blockCount - 39
    /\ RecTx.unlockTime # 0
    /\ ~RecRow.confirmed

\* C10: the direction of a row is In exactly when amount > 0, Out otherwise.
C10_Direction ==
    recPc = "done" =>
        /\ (RecRow.direction = "In" <=> RecTx.amount > 0)
        /\ (RecRow.direction = "Out" <=> ~(RecTx.amount > 0))

\* C10 witness: a transaction of amount 0 has been given direction Out
C10_Witness == recPc = "done" /\ RecTx.amount = 0 /\ RecRow.direction = "Out"

\* number of rows appended before those of block i: the transactions of
\* the blocks after it
RECURSIVE RowsBefore(_, _)
RowsBefore(bs, i) ==
    IF i >= Len(bs) THEN 0
    ELSE Len(bs[i + 1].transactions) + RowsBefore(bs, i + 1)

\* C11: the rows follow the blocks in reverse of the fetched sequence and,
\* within one block, the order of the block's transactions: the k-th
\* transaction of block i is the row after those of all later blocks and of
\* the first k-1 transactions of its block.
C11_RowOrder ==
    recPc = "done" =>
        /\ recOut.ok
        /\ Len(recOut.store) = CountTransactions(recIn.blocks)
        /\ \A i \in 1..Len(recIn.blocks) :
              \A k \in 1..Len(recIn.blocks[i].transactions) :
                 recOut.store[RowsBefore(recIn.blocks, i) + k]
                    = Row(recIn.blocks[i].transactions[k], recIn.status)

\* C11 witness: blocks [B1, B2, B3] = [[TxIn], [TxUnmatched], [TxReward, TxIn]]
\* give the rows of TxReward, TxIn, TxUnmatched, TxIn
C11_Witness ==
    /\ recPc = "done"
    /\ recIn.blocks = << [transactions |-> <<TxIn>>],
                         [transactions |-> <<TxUnmatched>>],
                         [transactions |-> <<TxReward, TxIn>>] >>
    /\ Len(recOut.store) = 4
    /\ recOut.store[1].time = FormatTime(3)
    /\ recOut.store[2].time = FormatTime(1)
    /\ recOut.store[3].time = FormatTime(6)
    /\ recOut.store[4].time = FormatTime(1)

\* C12: a transaction none of whose transfers carries the target neither
\* aborts the cycle nor is dropped: its row has direction, confirmed flag,
\* amount and time, and None for the address; the transactions after it have
\* their rows too.
C12_UnmatchedKept ==
    recPc = "done" =>
        /\ recOut.ok
        /\ Len(recOut.store) = CountTransactions(recIn.blocks)
        /\ \A i \in 1..Len(recIn.blocks) :
              \A k \in 1..Len(recIn.blocks[i].transactions) :
                 LET t   == recIn.blocks[i].transactions[k]
                     row == recOut.store[RowsBefore(recIn.blocks, i) + k]
                 IN  LastMatch(t, ClaimedTarget(t)) = None =>
                        /\ row.address = None
                        /\ row.direction = (IF t.amount > 0 THEN "In" ELSE "Out")
                        /\ row.confirmed = (\/ t.unlockTime = 0
                                            \/ t.unlockTime <= recIn.status.blockCount - 40)
                        /\ row.amount = FormatAmount(t.amount)
                        /\ row.time = FormatTime(t.timestamp)

\* C12 witness: the unmatched transaction has its row, with None, and the
\* transaction after it has its row
C12_Witness ==
    /\ recPc = "done"
    /\ recIn.blocks = << [transactions |-> <<TxUnmatched, TxIn>>] >>
    /\ recOut.store[1].address = None
    /\ recOut.store[1].direction = "Out"
    /\ recOut.store[2].address = "A"

\* C13: the view is rebuilt by every successful cycle: when a cycle delivers,
\* whatever was shown before, the list holds exactly the rows of this cycle's
\* blocks, and the balances, the address and the status are those this cycle
\* fetched.
C13_FullRebuild ==
    [][Delivers =>
          /\ Len(listStore') = CountTransactions(blocks)
          /\ \A i \in 1..Len(blocks) :
                \A k \in 1..Len(blocks[i].transactions) :
                   listStore'[RowsBefore(blocks, i) + k]
                      = Row(blocks[i].transactions[k], status)
          /\ availLabel' = FormatAmount(balances.availableBalance)
          /\ lockedLabel' = FormatAmount(balances.lockedAmount)
          /\ addressBox' = addresses[1]
          /\ \E now \in ClockValues :
                statusLabel' = FormatStatus(status.blockCount, status.peerCount, now)
      ]_vars

\* C13 witness: a cycle has delivered an empty list over a list that had rows
C13_Witness ==
    /\ uiPc = "main"
    /\ outcome.result = "delivered"
    /\ shown.transactions # << >>
    /\ listStore = << >>

\* no refresh has been scheduled yet: nothing queued, nothing running,
\* nothing finished
NothingScheduledYet == pending = 0 /\ uiPc = "main" /\ outcome.result = "none"

\* C14: the first refresh is scheduled before the worker sleeps at all: as
\* long as no refresh has been scheduled the worker is at line 56, not in
\* (or past) a sleep.
C14_FirstRefreshBeforeSleep == NothingScheduledYet => workerPc = "idle_add"

\* C14 witness: the worker is in its first sleep and the first refresh is
\* queued
C14_Witness ==
    workerPc = "sleep" /\ pending = 1 /\ uiPc = "main" /\ outcome.result = "none"

\* the places of refresh_values at which the UI thread is in an RPC call
RpcPlaces == {"getBalance", "getAddresses", "getStatus", "getTransactions"}

\* C15: the RPC calls are made by the worker thread, which sleeps only after
\* they have returned; the UI thread is never at an RPC call, and while the
\* worker sleeps no request is in flight.
C15_WorkerMakesRpcCalls ==
    /\ uiPc \notin RpcPlaces
    /\ (workerPc = "sleep" => inflight = {})

\* C16: at most one refresh is outstanding, queued or running.
C16_AtMostOneOutstanding ==
    pending + (IF uiPc = "main" THEN 0 ELSE 1) <= 1

\* C17: while a request stays unanswered the worker is blocked (it takes no
\* step), no further request is issued and no displayed value changes.
C17_UnansweredBlocksWorker ==
    [][(inflight # {} /\ inflight' = inflight) =>
          UNCHANGED <<workerPc, pending, rpcLog, display>>]_vars

\* C18: the list store (and the status label) is written only by the step
\* after the fourth request has returned; a cycle in which one of the four
\* calls fails leaves both as they were, whatever else it changed.
C18_ListWrittenAfterFourCalls ==
    /\ []((uiPc = "main" /\ outcome.result = "TransportFailure") =>
             (listStore = shown.transactions /\ statusLabel = shown.status))
    /\ [][(listStore' # listStore \/ statusLabel' # statusLabel) =>
             (uiPc = "populate" /\ Len(rpcLog) = 4 /\ inflight = {})]_vars

\* C18 witness: getTransactions has failed; the cycle has changed a balance
\* label, and the list, which has rows, is as it was
C18_Witness ==
    /\ uiPc = "main"
    /\ outcome = [result |-> "TransportFailure", at |-> "getTransactions"]
    /\ availLabel # shown.available
    /\ listStore # << >>
    /\ listStore = shown.transactions

\* C19: a transaction of amount 0 has direction Out, but its target is the
\* amount itself, 0, whatever the fee: the counterparty is the last transfer
\* of amount 0, not the last transfer of amount -(amount + fee).
C19_ZeroAmount ==
    (recPc = "done" /\ RecTx.amount = 0) =>
        /\ RecRow.direction = "Out"
        /\ DesiredTransferAmount(RecTx) = 0
        /\ RecRow.address = LastMatch(RecTx, 0)

\* C19 witness: amount 0, fee 10; the transfer of 0 is chosen although a
\* later transfer carries -(0 + 10)
C19_Witness ==
    /\ recPc = "done"
    /\ RecTx.amount = 0 /\ RecTx.fee = 10
    /\ RecTx.transfers = << [address |-> "B", amount |-> 0],
                            [address |-> "A", amount |-> -10] >>
    /\ RecRow.direction = "Out"
    /\ RecRow.address = "B"

\* the step on which line 74 raises IndexError
RaisesIndexError ==
    uiPc = "getAddresses" /\ uiPc' = "main" /\ outcome'.result = "IndexError"

\* C20: an empty address list aborts the cycle at line 74: no cycle goes on
\* to getStatus with an empty list; when the IndexError is raised only
\* getBalance and getAddresses have been issued, and the address box, the
\* list and the status label are as before the cycle.  After a successful
\* cycle the address shown is the first of that cycle's address list.
C20_EmptyAddressList ==
    /\ [](Len(rpcLog) >= 3 => addresses # << >>)
    /\ [][RaisesIndexError =>
             /\ Len(rpcLog) = 2
             /\ rpcLog[1].method = "getBalance"
             /\ rpcLog[2].method = "getAddresses"
             /\ addressBox' = shown.address
             /\ listStore' = shown.transactions
             /\ statusLabel' = shown.status]_vars
    /\ [][Delivers => (addresses # << >> /\ addressBox' = addresses[1])]_vars

\* C20 witness: a cycle has ended on the IndexError; the address box still
\* shows the address of an earlier cycle, the balance label has changed
C20_Witness ==
    /\ uiPc = "main"
    /\ outcome.result = "IndexError"
    /\ addressBox # GladeText
    /\ addressBox = shown.address
    /\ availLabel # shown.available

====
